---- MODULE Spec2Model ----
(***************************************************************************)
(* simple-malloc.c: xmalloc / xfree over a doubly linked chain of block    *)
(* headers that live inside the memory obtained from sbrk.                 *)
(*                                                                         *)
(* The headers are modelled where the program keeps them: in memory.  mem  *)
(* is the byte-addressed memory of the process, a header is the four       *)
(* word-sized slots of struct header at its address, and every field read  *)
(* or write of the C code is a load or store at that address.  Two headers *)
(* that the code places on overlapping addresses therefore overwrite each  *)
(* other here exactly as they do in the program.                           *)
(*                                                                         *)
(* The program is written against sizeof(size_t) and sizeof(struct header).*)
(* It is modelled as built for a target whose size_t and pointers are      *)
(* WordBytes = 2 bytes wide: every size and address is then a 16-bit       *)
(* value and wraps modulo SizeMod exactly as size_t arithmetic does, and   *)
(* the whole range of size_t fits the integers of the model checker.  On   *)
(* an LP64 build the same definitions read WordBytes = 8.                  *)
(***************************************************************************)
EXTENDS Integers, Sequences, FiniteSets, TLC

\* ---------------------------------------------------------------- layout
WordBytes == 2                       \* sizeof(size_t) == sizeof(void*)
ALIGNMENT == WordBytes               \* #define ALIGNMENT sizeof(size_t)
HEADER_SIZE == 4 * WordBytes         \* sizeof(struct header): size, free(+padding), next, prev
SizeMod == 256 ^ WordBytes           \* size_t and pointer arithmetic is modulo this
NULL == 0
SBRK_FAILED == SizeMod - 1           \* (void*)-1

FREE_OFF == WordBytes                \* offsetof(struct header, free)
NEXT_OFF == 2 * WordBytes            \* offsetof(struct header, next)
PREV_OFF == 3 * WordBytes            \* offsetof(struct header, prev)

\* the break of the process before the first sbrk call, and the highest break
\* the operating system grants
HeapBase == 4 * HEADER_SIZE
HeapLimit == SizeMod \div 2

\* ---------------------------------------------------------------- bounds
MaxOps == 6                          \* calls of xmalloc / xfree in one run
MaxRefusals == 1                     \* calls of sbrk the operating system refuses in one run
Sizes == {2, 16, SizeMod - 1}        \* the sizes the caller asks for
MaxSetup == 2                        \* calls that build the chain before the threads start

Mod(n) == n % SizeMod

\* ---------------------------------------------------------------- memory
\* mem maps the addresses of the non-zero bytes to their value; every other
\* byte reads 0: memory fresh from the operating system is zero-filled, and a
\* byte outside the granted memory that the program never wrote is taken as 0
\* when an access to it goes through.
ReadByte(m, a) == IF a \in DOMAIN m THEN m[a] ELSE 0

WriteByte(m, a, v) == (a :> v) @@ m

\* the same memory, written as the map of its non-zero bytes
Bytes(m) == [x \in {y \in DOMAIN m : m[y] # 0} |-> m[x]]

\* a word is stored little-endian in WordBytes bytes
RECURSIVE LoadBytes(_, _, _)
LoadBytes(m, a, n) ==
    IF n = 0 THEN 0
    ELSE ReadByte(m, a) + 256 * LoadBytes(m, Mod(a + 1), n - 1)

LoadWord(m, a) == LoadBytes(m, a, WordBytes)

RECURSIVE StoreBytes(_, _, _, _)
StoreBytes(m, a, v, n) ==
    IF n = 0 THEN m
    ELSE StoreBytes(WriteByte(m, a, v % 256), Mod(a + 1), v \div 256, n - 1)

StoreWord(m, a, v) == StoreBytes(m, a, v, WordBytes)

\* ---------------------------------------------------------------- context
\* The state one call works on: the memory, the globals head and tail
\* (lines 23-24), the break, and what went wrong so far in the call:
\*   oob   an access outside the memory granted by sbrk, or a misaligned word
\*         access (undefined behaviour: the access faults or goes through)
\*   hang  the scan of search_free_list revisited a block: it never ends
InRegion(c, a) == HeapBase <= a /\ a < c.brk

TouchByte(c, a) == [c EXCEPT !.oob = @ \/ ~InRegion(c, a)]

TouchWord(c, a) ==
    [c EXCEPT !.oob = @ \/ a % ALIGNMENT # 0
                        \/ \E i \in 0 .. WordBytes - 1 : ~InRegion(c, Mod(a + i))]

\* the fields of the struct header at address h of memory m (lines 16-21).
\* free is a bool: one byte, tested for non-zero.
SizeAt(m, h) == LoadWord(m, h)
FreeAt(m, h) == ReadByte(m, Mod(h + FREE_OFF)) # 0
NextAt(m, h) == LoadWord(m, Mod(h + NEXT_OFF))
PrevAt(m, h) == LoadWord(m, Mod(h + PREV_OFF))

\* header field reads: the value, and the context after the access
size_of(c, h) == SizeAt(c.mem, h)
free_of(c, h) == FreeAt(c.mem, h)
next_of(c, h) == NextAt(c.mem, h)
prev_of(c, h) == PrevAt(c.mem, h)

rd_size(c, h) == TouchWord(c, h)
rd_free(c, h) == TouchByte(c, Mod(h + FREE_OFF))
rd_next(c, h) == TouchWord(c, Mod(h + NEXT_OFF))
rd_prev(c, h) == TouchWord(c, Mod(h + PREV_OFF))

\* header field writes
set_size(c, h, v) == [TouchWord(c, h) EXCEPT !.mem = StoreWord(@, h, v)]
set_free(c, h, b) ==
    [TouchByte(c, Mod(h + FREE_OFF))
        EXCEPT !.mem = WriteByte(@, Mod(h + FREE_OFF), IF b THEN 1 ELSE 0)]
set_next(c, h, v) ==
    [TouchWord(c, Mod(h + NEXT_OFF)) EXCEPT !.mem = StoreWord(@, Mod(h + NEXT_OFF), v)]
set_prev(c, h, v) ==
    [TouchWord(c, Mod(h + PREV_OFF)) EXCEPT !.mem = StoreWord(@, Mod(h + PREV_OFF), v)]

\* ---------------------------------------------------------------- the code
\* Sequencing: Do(v, K) evaluates v once and continues with K on its value,
\* as one C statement is followed by the next.
Do(v, K(_)) == CHOOSE r \in {K(x) : x \in {v}} : TRUE

\* #define ALIGN(size) (((size) + (ALIGNMENT-1)) & ~(ALIGNMENT-1)), in size_t
ALIGN(size) ==
    LET t == Mod(size + (ALIGNMENT - 1)) IN t - (t % ALIGNMENT)

\* #define get_header(ptr) (struct header*)(ptr) - 1
get_header(ptr) == Mod(ptr - HEADER_SIZE)

init_header(c, header, size, free) ==
    Do(set_size(c, header, size), LAMBDA c1 :
    Do(set_free(c1, header, free), LAMBDA c2 :
    Do(set_next(c2, header, NULL), LAMBDA c3 :
       set_prev(c3, header, NULL))))

\* sbrk(intptr_t increment): the increment is the size_t value read as signed;
\* grant is the operating system's answer when the new break is in range
sbrk(c, increment, grant) ==
    LET inc == IF increment >= SizeMod \div 2 THEN increment - SizeMod ELSE increment
        new == c.brk + inc
    IN  IF grant /\ HeapBase <= new /\ new <= HeapLimit
        THEN [c |-> [c EXCEPT !.brk = new], ret |-> c.brk]
        ELSE [c |-> c, ret |-> SBRK_FAILED]

get_raw_heap_mem(c, size, grant) ==
    Do(sbrk(c, size, grant), LAMBDA r :
       IF r.ret = SBRK_FAILED THEN [c |-> r.c, ret |-> NULL] ELSE r)

get_heap_mem(c, size, grant) ==
    Do(get_raw_heap_mem(c, Mod(HEADER_SIZE + size), grant), LAMBDA r :
       IF r.ret = NULL THEN r
       ELSE Do(init_header(r.c, r.ret, size, FALSE), LAMBDA c1 :
               [c |-> c1, ret |-> r.ret]))

can_split_block(c, block, req_size) ==
    Mod(size_of(c, block) + HEADER_SIZE) > req_size

\* line 83: (struct header*)(char*)(lhs_block+1) + size.  The casts bind
\* tighter than +, so size is added to a struct header*: it counts headers.
split_block(c, lhs_block, size) ==
    Do(Mod(lhs_block + HEADER_SIZE + size * HEADER_SIZE), LAMBDA rhs_block :
    Do(Mod(size_of(c, lhs_block) - size - HEADER_SIZE), LAMBDA rest :
    Do(rd_size(c, lhs_block), LAMBDA c0 :
    Do(init_header(c0, rhs_block, rest, TRUE), LAMBDA c1 :
    Do(set_size(c1, lhs_block, size), LAMBDA c2 :
    Do(set_free(c2, lhs_block, FALSE), LAMBDA c3 :
    Do(set_prev(c3, rhs_block, lhs_block), LAMBDA c4 :
    Do(set_next(rd_next(c4, lhs_block), rhs_block, next_of(c4, lhs_block)), LAMBDA c5 :
    Do(IF next_of(c5, lhs_block) # NULL
       THEN set_prev(rd_next(c5, lhs_block), next_of(c5, lhs_block), rhs_block)
       ELSE rd_next(c5, lhs_block), LAMBDA c6 :
    Do(set_next(c6, lhs_block, rhs_block), LAMBDA c7 :
       [c |-> IF lhs_block = c7.tail THEN [c7 EXCEPT !.tail = rhs_block] ELSE c7,
        ret |-> lhs_block]))))))))))

\* the loop of search_free_list (lines 107-109); seen is the set of blocks the
\* loop has tested: the loop writes nothing, so a second visit never ends
RECURSIVE scan(_, _, _, _)
scan(c, curr_blk, size, seen) ==
    IF curr_blk = NULL THEN [c |-> c, ret |-> NULL]
    ELSE IF curr_blk \in seen THEN [c |-> [c EXCEPT !.hang = TRUE], ret |-> NULL]
    ELSE Do(size_of(c, curr_blk) >= size, LAMBDA big :
         Do(IF big THEN rd_free(rd_size(c, curr_blk), curr_blk)
                   ELSE rd_size(c, curr_blk), LAMBDA c1 :
            IF big /\ free_of(c, curr_blk)
            THEN [c |-> c1, ret |-> curr_blk]
            ELSE Do(rd_next(c1, curr_blk), LAMBDA c2 :
                 Do(next_of(c, curr_blk), LAMBDA nxt :
                 Do(seen \cup {curr_blk}, LAMBDA seen1 :
                    scan(c2, nxt, size, seen1))))))

\* search_free_list with the scan of lines 107-109 started at head->next
search_free_list_after_head(c, size) ==
    Do(scan(c, next_of(c, c.head), size, {}), LAMBDA s :
       IF s.ret = NULL
       THEN [c |-> s.c, ret |-> NULL, found |-> NULL, split |-> FALSE]
       ELSE Do(rd_size(s.c, s.ret), LAMBDA c1 :
               IF can_split_block(c1, s.ret, size)
               THEN Do(split_block(c1, s.ret, size), LAMBDA r :
                       [c |-> r.c, ret |-> r.ret, found |-> s.ret, split |-> TRUE])
               ELSE [c |-> c1, ret |-> s.ret, found |-> s.ret, split |-> FALSE]))

\* found is the block the scan stopped at, split whether it was split
search_free_list(c, size) ==
    Do(scan(c, c.head, size, {}), LAMBDA s :
       IF s.ret = NULL
       THEN [c |-> s.c, ret |-> NULL, found |-> NULL, split |-> FALSE]
       ELSE Do(rd_size(s.c, s.ret), LAMBDA c1 :
               IF can_split_block(c1, s.ret, size)
               THEN Do(split_block(c1, s.ret, size), LAMBDA r :
                       [c |-> r.c, ret |-> r.ret, found |-> s.ret, split |-> TRUE])
               ELSE [c |-> c1, ret |-> s.ret, found |-> s.ret, split |-> FALSE]))

\* #define append_to_free_list(blk) (lines 28-31)
append_to_free_list(c, blk) ==
    Do(set_prev(c, blk, c.tail), LAMBDA c1 :
    Do(set_next(c1, c1.tail, blk), LAMBDA c2 :
       [c2 EXCEPT !.tail = blk]))

\* expand_free_list with the block appended before it is tested for NULL
expand_free_list_unchecked(c, size, grant) ==
    Do(get_heap_mem(c, size, grant), LAMBDA r :
    Do(append_to_free_list(r.c, r.ret), LAMBDA c1 :
       [c |-> c1, ret |-> r.ret]))

expand_free_list(c, size, grant) ==
    Do(get_heap_mem(c, size, grant), LAMBDA r :
       IF r.ret = NULL THEN r
       ELSE Do(append_to_free_list(r.c, r.ret), LAMBDA c1 :
               [c |-> c1, ret |-> r.ret]))

init_heap(c, size, grant) ==
    Do(get_heap_mem(c, size, grant), LAMBDA r :
       IF r.ret = NULL THEN r
       ELSE [c |-> [r.c EXCEPT !.head = r.ret, !.tail = r.ret], ret |-> r.ret])

\* xmalloc.  path names the branch taken; asked tells whether sbrk was called.
\* block + 1 is computed whatever block is: on the empty chain a NULL from
\* init_heap is not tested, and NULL + 1 is the address HEADER_SIZE.
xmalloc(c, req, grant) ==
    Do(ALIGN(req), LAMBDA size :
    IF c.head = NULL
    THEN Do(init_heap(c, size, grant), LAMBDA r :
            [c |-> r.c, ret |-> Mod(r.ret + HEADER_SIZE), block |-> r.ret,
             path |-> "init", asked |-> TRUE, refused |-> r.ret = NULL])
    ELSE Do(search_free_list(c, size), LAMBDA s :
            IF s.c.hang
            THEN [c |-> s.c, ret |-> NULL, block |-> NULL,
                  path |-> "hang", asked |-> FALSE, refused |-> FALSE]
            ELSE IF s.ret = NULL
            THEN Do(expand_free_list(s.c, size, grant), LAMBDA e :
                    IF e.ret = NULL
                    THEN [c |-> e.c, ret |-> NULL, block |-> NULL,
                          path |-> "grow", asked |-> TRUE, refused |-> TRUE]
                    ELSE [c |-> e.c, ret |-> Mod(e.ret + HEADER_SIZE), block |-> e.ret,
                          path |-> "grow", asked |-> TRUE, refused |-> FALSE])
            ELSE [c |-> s.c, ret |-> Mod(s.ret + HEADER_SIZE), block |-> s.ret,
                  path |-> IF s.split THEN "split" ELSE "nosplit",
                  asked |-> FALSE, refused |-> FALSE]))

\* merge_adjacent_free_blocks adding the payload of b only at line 166
merge_adjacent_free_blocks_payload(c, a, b) ==
    Do(Mod(size_of(c, a) + size_of(c, b)), LAMBDA sum :
    Do(set_size(rd_size(rd_size(c, b), a), a, sum), LAMBDA c1 :
    Do(set_next(rd_next(c1, b), a, next_of(c1, b)), LAMBDA c2 :
    Do(IF next_of(c2, b) # NULL
       THEN set_prev(rd_next(c2, b), next_of(c2, b), a)
       ELSE rd_next(c2, b), LAMBDA c3 :
       IF c3.tail = b THEN [c3 EXCEPT !.tail = a] ELSE c3))))

\* Merge block b into block a
merge_adjacent_free_blocks(c, a, b) ==
    Do(Mod(size_of(c, a) + Mod(size_of(c, b) + HEADER_SIZE)), LAMBDA sum :
    Do(set_size(rd_size(rd_size(c, b), a), a, sum), LAMBDA c1 :
    Do(set_next(rd_next(c1, b), a, next_of(c1, b)), LAMBDA c2 :
    Do(IF next_of(c2, b) # NULL
       THEN set_prev(rd_next(c2, b), next_of(c2, b), a)
       ELSE rd_next(c2, b), LAMBDA c3 :
       IF c3.tail = b THEN [c3 EXCEPT !.tail = a] ELSE c3))))

\* xfree without the test of ptr of lines 181-182
xfree_unchecked(c, ptr) ==
    Do(get_header(ptr), LAMBDA block :
    Do(set_free(c, block, TRUE), LAMBDA c1 :
    Do(next_of(c1, block), LAMBDA nxt :
    Do(IF nxt # NULL THEN rd_free(rd_next(c1, block), nxt)
                     ELSE rd_next(c1, block), LAMBDA c2 :
       IF nxt # NULL /\ free_of(c1, nxt)
       THEN Do(merge_adjacent_free_blocks(c2, block, nxt), LAMBDA c3 :
               [c |-> c3, merged |-> "next"])
       ELSE
       Do(prev_of(c1, block), LAMBDA prv :
       Do(IF prv # NULL THEN rd_free(rd_prev(c2, block), prv)
                        ELSE rd_prev(c2, block), LAMBDA c3 :
          IF prv # NULL /\ free_of(c1, prv)
          THEN Do(merge_adjacent_free_blocks(c3, prv, block), LAMBDA c4 :
                  [c |-> c4, merged |-> "prev"])
          ELSE [c |-> c3, merged |-> "none"]))))))

\* xfree.  merged tells which neighbour the block was merged with.
xfree(c, ptr) ==
    IF ptr = NULL THEN [c |-> c, merged |-> "none"]
    ELSE
    Do(get_header(ptr), LAMBDA block :
    Do(set_free(c, block, TRUE), LAMBDA c1 :
    Do(next_of(c1, block), LAMBDA nxt :
    Do(IF nxt # NULL THEN rd_free(rd_next(c1, block), nxt)
                     ELSE rd_next(c1, block), LAMBDA c2 :
       IF nxt # NULL /\ free_of(c1, nxt)
       THEN Do(merge_adjacent_free_blocks(c2, block, nxt), LAMBDA c3 :
               [c |-> c3, merged |-> "next"])
       ELSE
       Do(prev_of(c1, block), LAMBDA prv :
       Do(IF prv # NULL THEN rd_free(rd_prev(c2, block), prv)
                        ELSE rd_prev(c2, block), LAMBDA c3 :
          IF prv # NULL /\ free_of(c1, prv)
          THEN Do(merge_adjacent_free_blocks(c3, prv, block), LAMBDA c4 :
                  [c |-> c4, merged |-> "prev"])
          ELSE [c |-> c3, merged |-> "none"]))))))

\* ---------------------------------------------------------------- the machine
VARIABLES
    mem,      \* the memory of the process
    head,     \* struct header *head
    tail,     \* struct header *tail
    brk,      \* the program break: sbrk granted [HeapBase, brk)
    live,     \* what the caller holds: pointers xmalloc returned, not yet released
    status,   \* "running", "crashed" (an access faulted) or "hung"
    nops,     \* calls made so far
    refusals, \* calls of sbrk refused so far
    last,     \* the last call that returned: arguments, result, state before it
    threads   \* the threads inside xmalloc: each one's position and locals

vars == <<mem, head, tail, brk, live, status, nops, refusals, last, threads>>

Ctx == [mem |-> mem, head |-> head, tail |-> tail, brk |-> brk,
        oob |-> FALSE, hang |-> FALSE]

Pre == [mem |-> mem, head |-> head, tail |-> tail, brk |-> brk, live |-> live]

NoCall == [op |-> "none", arg |-> 0, ret |-> 0, block |-> 0, path |-> "none",
           asked |-> FALSE, refused |-> FALSE, oob |-> FALSE,
           pre |-> [mem |-> <<>>, head |-> NULL, tail |-> NULL, brk |-> HeapBase,
                    live |-> {}]]

\* the threads that call xmalloc at the same time, and a thread outside xmalloc
Threads == {1, 2}
Idle == [pc |-> "idle", req |-> 0, size |-> 0, block |-> NULL, seen |-> NULL, id |-> 0]

Init ==
    /\ mem = <<>>
    /\ head = NULL
    /\ tail = NULL
    /\ brk = HeapBase
    /\ live = {}
    /\ status = "running"
    /\ nops = 0
    /\ refusals = 0
    /\ last = NoCall
    /\ threads = [t \in Threads |-> Idle]

\* the caller calls xmalloc(req).  grant: the answer of the operating system if
\* sbrk is called.  goes: whether an access outside the granted memory goes
\* through (TRUE) or faults (FALSE).
XMalloc(req) ==
    /\ status = "running"
    /\ nops < MaxOps
    /\ UNCHANGED threads
    /\ \E grant \in IF refusals < MaxRefusals THEN BOOLEAN ELSE {TRUE} :
       \E c0 \in {Ctx} : \E r \in {xmalloc(c0, req, grant)} :
       /\ grant \/ r.asked
       /\ nops' = nops + 1
       /\ refusals' = IF grant THEN refusals ELSE refusals + 1
       /\ IF r.c.hang
          THEN /\ status' = "hung"
               /\ UNCHANGED <<mem, head, tail, brk, live, last>>
          ELSE \E goes \in IF r.c.oob THEN BOOLEAN ELSE {TRUE} :
               IF ~goes
               THEN /\ status' = "crashed"
                    /\ UNCHANGED <<mem, head, tail, brk, live, last>>
               ELSE /\ status' = "running"
                    /\ mem' = Bytes(r.c.mem)
                    /\ head' = r.c.head
                    /\ tail' = r.c.tail
                    /\ brk' = r.c.brk
                    /\ live' = IF r.ret = NULL THEN live
                               ELSE live \cup {[ptr |-> r.ret, req |-> req, id |-> nops]}
                    /\ last' = [op |-> "xmalloc", arg |-> req, ret |-> r.ret,
                                block |-> r.block, path |-> r.path, asked |-> r.asked,
                                refused |-> r.refused, oob |-> r.c.oob, pre |-> Pre]

\* the caller calls xfree(NULL), or xfree of a pointer it holds
XFree(a) ==
    /\ status = "running"
    /\ nops < MaxOps
    /\ UNCHANGED threads
    /\ \E c0 \in {Ctx} : \E r \in {xfree(c0, a.ptr)} :
       /\ nops' = nops + 1
       /\ UNCHANGED refusals
       /\ \E goes \in IF r.c.oob THEN BOOLEAN ELSE {TRUE} :
          IF ~goes
          THEN /\ status' = "crashed"
               /\ UNCHANGED <<mem, head, tail, brk, live, last>>
          ELSE /\ status' = "running"
               /\ mem' = Bytes(r.c.mem)
               /\ head' = r.c.head
               /\ tail' = r.c.tail
               /\ brk' = r.c.brk
               /\ live' = live \ {a}
               /\ last' = [op |-> "xfree", arg |-> a.ptr, ret |-> 0,
                           block |-> IF a.ptr = NULL THEN NULL ELSE get_header(a.ptr),
                           path |-> r.merged, asked |-> FALSE, refused |-> FALSE,
                           oob |-> r.c.oob, pre |-> Pre]

NullArg == [ptr |-> NULL, req |-> 0, id |-> 0]

Next ==
    \/ \E req \in Sizes : XMalloc(req)
    \/ \E a \in live \cup {NullArg} : XFree(a)

Spec == Init /\ [][Next]_vars

\* ---------------------------------------------------------------- the chain
\* the blocks met following next from h until NULL, or until a block comes
\* back (the chain then loops and the walk of free_list_len never ends)
RECURSIVE Walk(_, _, _)
Walk(m, b, acc) ==
    IF b = NULL \/ (\E i \in 1 .. Len(acc) : acc[i] = b) THEN acc
    ELSE Do(NextAt(m, b), LAMBDA nxt :
         Do(Append(acc, b), LAMBDA acc1 : Walk(m, nxt, acc1)))

ChainOf(m, h) == Walk(m, h, <<>>)

Loops(m, h) ==
    LET ch == ChainOf(m, h) IN Len(ch) > 0 /\ NextAt(m, ch[Len(ch)]) # NULL

\* free_list_len (lines 196-206); -1 stands for a walk that never returns
free_list_len(m, h) == IF Loops(m, h) THEN -1 ELSE Len(ChainOf(m, h))

Chain == ChainOf(mem, head)
PreChain == ChainOf(last.pre.mem, last.pre.head)
Blocks == {Chain[i] : i \in 1 .. Len(Chain)}
PreBlocks == {PreChain[i] : i \in 1 .. Len(PreChain)}

\* half-open address ranges [lo1, hi1) and [lo2, hi2) share no byte
Disjoint(lo1, hi1, lo2, hi2) == lo1 >= hi1 \/ lo2 >= hi2 \/ hi1 <= lo2 \/ hi2 <= lo1

\* the payload [p, p + aligned(s)) of an allocation the caller holds
PayloadEnd(a) == a.ptr + ALIGN(a.req)

Returned(op) == status = "running" /\ last.op = op

\* ---------------------------------------------------------------- claims

\* C1: the payloads of the live allocations are pairwise disjoint, no two live
\* allocations share a pointer, and no live payload overlaps the header of a
\* block of the chain.
C1_Isolation ==
    /\ \A a, b \in live :
         a # b => /\ a.ptr # b.ptr
                  /\ Disjoint(a.ptr, PayloadEnd(a), b.ptr, PayloadEnd(b))
    /\ \A a \in live : \A h \in Blocks :
         Disjoint(a.ptr, PayloadEnd(a), h, h + HEADER_SIZE)

\* C2: an xmalloc call whose sbrk request is refused returns NULL, on the empty
\* chain as on a non-empty one.
C2_RefusedReturnsNull ==
    (Returned("xmalloc") /\ last.refused) => last.ret = NULL

\* C3: the block whose payload a successful xmalloc returns is marked
\* allocated when xmalloc returns, whichever path produced it.
C3_ReturnedBlockAllocated ==
    (Returned("xmalloc") /\ ~last.refused) => ~FreeAt(mem, last.block)

\* C4: a successful xmalloc(s) returns a pointer that is a multiple of the word
\* size, and the size in the returned block's header is aligned(s).
C4_AlignedPointerAndSize ==
    (Returned("xmalloc") /\ ~last.refused) =>
        /\ last.ret % ALIGNMENT = 0
        /\ SizeAt(mem, last.block) = ALIGN(last.arg)

\* C5: when an xfree call has returned, no block of the chain is free together
\* with its successor.
C5_NoAdjacentFreeAfterRelease ==
    Returned("xfree") =>
        \A b \in Blocks :
            ~(FreeAt(mem, b) /\ NextAt(mem, b) # NULL /\ FreeAt(mem, NextAt(mem, b)))

\* C6: the chain tiles the memory obtained from sbrk: head is at its base, each
\* block ends where its successor starts, and tail ends at the break.
C6_ChainTilesRegion ==
    head # NULL =>
        /\ head = HeapBase
        /\ \A b \in Blocks :
             NextAt(mem, b) # NULL => NextAt(mem, b) = b + HEADER_SIZE + SizeAt(mem, b)
        /\ tail + HEADER_SIZE + SizeAt(mem, tail) = brk

\* C7: list order is memory order: every block with a successor lies at a
\* lower address than its successor.
C7_ListOrderAscending ==
    \A b \in Blocks : NextAt(mem, b) # NULL => b < NextAt(mem, b)

\* C8: when xmalloc grows the region, the new header starts at the previous
\* break, the break advances by header_size + aligned(size), and the new
\* block's footprint overlaps the footprint of no block already in the chain.
C8_GrowthMonotonic ==
    (Returned("xmalloc") /\ last.asked /\ ~last.refused) =>
        /\ last.block = last.pre.brk
        /\ brk = last.pre.brk + HEADER_SIZE + ALIGN(last.arg)
        /\ \A b \in PreBlocks :
             Disjoint(last.block, last.block + HEADER_SIZE + ALIGN(last.arg),
                      b, b + HEADER_SIZE + SizeAt(last.pre.mem, b))

\* C9: an xmalloc call that fails because sbrk refuses leaves head, tail and
\* every byte of memory, so every header of the chain, as they were.
C9_RefusalChangesNothing ==
    (Returned("xmalloc") /\ last.refused) =>
        /\ mem = last.pre.mem
        /\ head = last.pre.head
        /\ tail = last.pre.tail
        /\ free_list_len(mem, head) = free_list_len(last.pre.mem, last.pre.head)

\* C9 witness: sbrk refused the growth of a chain that holds blocks
C9_Witness ==
    /\ Returned("xmalloc") /\ last.refused
    /\ last.path = "grow"
    /\ Len(PreChain) >= 2

\* C10: when xmalloc(s) reuses a free block B of size S >= aligned(s) +
\* header_size, sbrk is not called, B keeps its address and becomes an
\* allocated block of aligned(s) bytes, one new free block of size
\* S - aligned(s) - header_size follows B and takes over B's former next (and
\* is the tail if B was), and the chain is one block longer.
C10_SplitCorrect ==
    LET B == last.block
        S == SizeAt(last.pre.mem, B)
        s == ALIGN(last.arg)
        R == NextAt(mem, B)
    IN  (Returned("xmalloc") /\ last.path = "split" /\ S >= s + HEADER_SIZE) =>
            /\ ~last.asked /\ brk = last.pre.brk
            /\ B \in PreBlocks
            /\ SizeAt(mem, B) = s /\ ~FreeAt(mem, B)
            /\ R # NULL /\ R \notin PreBlocks
            /\ FreeAt(mem, R) /\ SizeAt(mem, R) = S - s - HEADER_SIZE
            /\ PrevAt(mem, R) = B
            /\ NextAt(mem, R) = NextAt(last.pre.mem, B)
            /\ (last.pre.tail = B => tail = R)
            /\ (last.pre.tail # B => tail = last.pre.tail)
            /\ free_list_len(mem, head) = free_list_len(last.pre.mem, last.pre.head) + 1

\* the merge of the last xfree call: a is the block that absorbed, b the block
\* absorbed (block and block->next, or block->prev and block)
MergeA == IF last.path = "next" THEN last.block ELSE PrevAt(last.pre.mem, last.block)
MergeB == IF last.path = "next" THEN NextAt(last.pre.mem, last.block) ELSE last.block
Merged == Returned("xfree") /\ last.path \in {"next", "prev"}

\* C11: every merge by xfree of a block a with the block b leaves a free with
\* size a.size + header_size + b.size, gives a the former next of b (whose prev
\* then points to a), makes a the tail if b was, removes b from the chain, makes
\* the chain one block shorter, and changes the size and the free flag of no
\* other block.
C11_MergeExact ==
    LET a == MergeA
        b == MergeB
        bn == NextAt(last.pre.mem, b)
    IN  Merged =>
            /\ FreeAt(mem, a)
            /\ SizeAt(mem, a) = SizeAt(last.pre.mem, a) + HEADER_SIZE + SizeAt(last.pre.mem, b)
            /\ NextAt(mem, a) = bn
            /\ (bn # NULL => PrevAt(mem, bn) = a)
            /\ (last.pre.tail = b => tail = a)
            /\ b \notin Blocks
            /\ free_list_len(mem, head) = free_list_len(last.pre.mem, last.pre.head) - 1
            /\ \A x \in PreBlocks \ {a, b, last.block} :
                 /\ SizeAt(mem, x) = SizeAt(last.pre.mem, x)
                 /\ FreeAt(mem, x) = FreeAt(last.pre.mem, x)

\* C12: xfree(NULL) leaves head, tail, the chain and its length, and the size,
\* the free flag and the links of every block as they were.
C12_NullReleaseNoOp ==
    (Returned("xfree") /\ last.arg = NULL) =>
        /\ head = last.pre.head
        /\ tail = last.pre.tail
        /\ Chain = PreChain
        /\ free_list_len(mem, head) = free_list_len(last.pre.mem, last.pre.head)
        /\ \A b \in PreBlocks :
             /\ SizeAt(mem, b) = SizeAt(last.pre.mem, b)
             /\ FreeAt(mem, b) = FreeAt(last.pre.mem, b)
             /\ NextAt(mem, b) = NextAt(last.pre.mem, b)
             /\ PrevAt(mem, b) = PrevAt(last.pre.mem, b)

\* C12 witness: xfree(NULL) returned on a chain of two blocks or more, one of
\* them free
C12_Witness ==
    /\ Returned("xfree") /\ last.arg = NULL
    /\ Len(PreChain) >= 2
    /\ \E b \in PreBlocks : FreeAt(last.pre.mem, b)

\* C13: when the first fitting free block B has size S >= aligned(s) with
\* S - aligned(s) < header_size, xmalloc(s) returns B unsplit: the chain keeps
\* its blocks and its length, B keeps its size and is marked allocated.
C13_NoSplitWithoutRoom ==
    LET B == last.block
        S == SizeAt(last.pre.mem, B)
        s == ALIGN(last.arg)
    IN  (Returned("xmalloc") /\ last.path \in {"split", "nosplit"}
         /\ S >= s /\ S - s < HEADER_SIZE) =>
            /\ last.path = "nosplit"
            /\ Chain = PreChain
            /\ free_list_len(mem, head) = free_list_len(last.pre.mem, last.pre.head)
            /\ SizeAt(mem, B) = S
            /\ ~FreeAt(mem, B)

\* the positions in the chain before the last call of the free blocks of at
\* least size bytes
PreFits(size) ==
    {i \in 1 .. Len(PreChain) :
        /\ FreeAt(last.pre.mem, PreChain[i])
        /\ SizeAt(last.pre.mem, PreChain[i]) >= size}

\* C14: on a non-empty chain xmalloc(s) reuses the first block in head-to-tail
\* order that is free with size >= aligned(s), never a later one, and asks sbrk
\* for memory only if no block of the chain is free with size >= aligned(s).
C14_FirstFit ==
    LET fits == PreFits(ALIGN(last.arg))
    IN  (Returned("xmalloc") /\ last.pre.head # NULL) =>
            /\ last.asked => fits = {}
            /\ fits # {} =>
                 /\ last.block \in PreBlocks
                 /\ \E i \in fits : /\ PreChain[i] = last.block
                                    /\ \A j \in fits : i <= j

\* C14 witness: xmalloc reused a free block that comes before another free
\* block that fits
C14_Witness ==
    /\ Returned("xmalloc") /\ last.pre.head # NULL
    /\ ~last.asked
    /\ Cardinality(PreFits(ALIGN(last.arg))) >= 2

\* C15: for every s of the range of size_t, the block whose payload a
\* successful xmalloc(s) returns has a recorded size of at least s.
C15_BlockLargeEnough ==
    (Returned("xmalloc") /\ ~last.refused /\ last.ret # NULL) =>
        SizeAt(mem, last.block) >= last.arg

\* C16: one xfree call merges at most once, so the chain gets shorter by 0 or
\* by 1 block; when the block released has a free successor and a free
\* predecessor it is merged with the successor only, and the predecessor stays
\* in the chain, free, with the enlarged block as its successor.
C16_OneSidedMerge ==
    LET b == last.block
        r == NextAt(last.pre.mem, b)
        l == PrevAt(last.pre.mem, b)
        pm == last.pre.mem
    IN  (Returned("xfree") /\ last.arg # NULL) =>
            /\ free_list_len(pm, last.pre.head) - free_list_len(mem, head) \in {0, 1}
            /\ (r # NULL /\ FreeAt(pm, r) /\ l # NULL /\ FreeAt(pm, l)) =>
                 /\ last.path = "next"
                 /\ free_list_len(pm, last.pre.head) - free_list_len(mem, head) = 1
                 /\ l \in Blocks /\ b \in Blocks
                 /\ FreeAt(mem, l) /\ FreeAt(mem, b)
                 /\ NextAt(mem, l) = b /\ PrevAt(mem, b) = l
                 /\ SizeAt(mem, l) = SizeAt(pm, l)
                 /\ SizeAt(mem, b) = SizeAt(pm, b) + HEADER_SIZE + SizeAt(pm, r)

\* C17: in every reachable state head and tail are both NULL, or head has no
\* prev, tail has no next, following next from head reaches tail without
\* meeting a block twice, and every block is the prev of its successor.
C17_ChainIntegrity ==
    \/ head = NULL /\ tail = NULL
    \/ /\ head # NULL /\ tail # NULL
       /\ PrevAt(mem, head) = NULL
       /\ NextAt(mem, tail) = NULL
       /\ ~Loops(mem, head)
       /\ Chain[Len(Chain)] = tail
       /\ \A b \in Blocks :
            NextAt(mem, b) # NULL => PrevAt(mem, NextAt(mem, b)) = b

\* ---------------------------------------------------------- the round trip
\* a caller that makes n calls of xmalloc, all granted by sbrk, and then calls
\* xfree on what they returned, the lowest address first
Grow(req) ==
    /\ Cardinality(live) = nops
    /\ XMalloc(req)
    /\ refusals' = refusals

ReleaseLowest ==
    \E a \in live :
        /\ \A b \in live : a.ptr <= b.ptr
        /\ XFree(a)

NextRoundTrip ==
    \/ \E req \in Sizes : Grow(req)
    \/ ReleaseLowest

SpecRoundTrip == Init /\ [][NextRoundTrip]_vars

\* the bytes sbrk granted for the allocations of S: a header and the aligned
\* size each
RECURSIVE SumFootprint(_)
SumFootprint(S) ==
    IF S = {} THEN 0
    ELSE LET a == CHOOSE x \in S : TRUE
         IN  HEADER_SIZE + ALIGN(a.req) + SumFootprint(S \ {a})

\* C18: from the empty chain, n >= 1 calls xmalloc(s1) .. xmalloc(sn) all grow
\* the region (chain of n blocks, aligned(si) + header_size bytes granted for
\* each), and after xfree of the n pointers in ascending address order the
\* chain is one free block, head and tail, at the address of the first block,
\* of size aligned(s1) + ... + aligned(sn) + (n-1) * header_size: all the
\* bytes granted but one header.
C18_FullMergeRoundTrip ==
    /\ (nops > 0 /\ Cardinality(live) = nops) =>
          /\ last.path \in {"init", "grow"}
          /\ free_list_len(mem, head) = nops
          /\ brk - HeapBase = SumFootprint(live)
    /\ Returned("xfree") => brk = last.pre.brk
    /\ (nops > 0 /\ live = {}) =>
          /\ Chain = <<HeapBase>>
          /\ head = HeapBase /\ tail = HeapBase
          /\ NextAt(mem, head) = NULL /\ PrevAt(mem, head) = NULL
          /\ FreeAt(mem, head)
          /\ SizeAt(mem, head) = brk - HeapBase - HEADER_SIZE

\* C18 witness: three blocks were allocated and the last of them has been
\* released and merged into the first
C18_Witness ==
    /\ Returned("xfree") /\ last.path = "prev"
    /\ live = {} /\ Cardinality(last.pre.live) = 1
    /\ free_list_len(last.pre.mem, last.pre.head) = 2
    /\ nops > 4

\* C19: in every reachable state the size field of every block of the chain
\* is a multiple of the word size.
C19_SizesAligned ==
    \A b \in Blocks : SizeAt(mem, b) % ALIGNMENT = 0

\* ------------------------------------------- two threads inside xmalloc
\* Threads call xmalloc on a chain that one thread built; each statement of
\* the growth path that reads or writes the chain is one step.  The scan of
\* search_free_list is taken as one step: the chain holds no free block, so
\* the scan fails whatever the other thread has linked meanwhile.

\* an access of a thread: it goes through, or faults if it left the region
Access(c) ==
    \E goes \in IF c.oob THEN BOOLEAN ELSE {TRUE} :
        IF goes
        THEN /\ status' = "running"
             /\ mem' = Bytes(c.mem)
             /\ brk' = c.brk
        ELSE /\ status' = "crashed"
             /\ UNCHANGED <<mem, brk>>

\* the chain is built by one thread before the others start
Setup(req) ==
    /\ \A t \in Threads : threads[t].pc = "idle"
    /\ nops < MaxSetup
    /\ Grow(req)

\* lines 148-151: size = ALIGN(size), and head is not NULL
Call(t, req) ==
    /\ status = "running"
    /\ nops < MaxOps
    /\ threads[t].pc = "idle"
    /\ head # NULL
    /\ threads' = [threads EXCEPT ![t] = [Idle EXCEPT !.pc = "search", !.req = req,
                                                      !.size = ALIGN(req), !.id = nops]]
    /\ nops' = nops + 1
    /\ UNCHANGED <<mem, head, tail, brk, live, status, refusals, last>>

\* line 152: search_free_list returns NULL
Search(t) ==
    /\ status = "running"
    /\ threads[t].pc = "search"
    /\ \E c0 \in {Ctx} : \E s \in {search_free_list(c0, threads[t].size)} :
       /\ s.ret = NULL /\ ~s.c.hang
       /\ Access(s.c)
    /\ threads' = [threads EXCEPT ![t].pc = "sbrk"]
    /\ UNCHANGED <<head, tail, live, nops, refusals, last>>

\* lines 125-126: get_heap_mem; a refused call returns NULL to the caller
Sbrk(t) ==
    /\ status = "running"
    /\ threads[t].pc = "sbrk"
    /\ \E grant \in IF refusals < MaxRefusals THEN BOOLEAN ELSE {TRUE} :
       \E c0 \in {Ctx} : \E r \in {get_heap_mem(c0, threads[t].size, grant)} :
       /\ Access(r.c)
       /\ refusals' = IF grant THEN refusals ELSE refusals + 1
       /\ threads' = [threads EXCEPT ![t].block = r.ret,
                                     ![t].pc = IF r.ret = NULL THEN "done" ELSE "prev"]
    /\ UNCHANGED <<head, tail, live, nops, last>>

\* line 29: (blk)->prev = tail
SetPrev(t) ==
    /\ status = "running"
    /\ threads[t].pc = "prev"
    /\ \E c0 \in {Ctx} : \E c1 \in {set_prev(c0, threads[t].block, tail)} : Access(c1)
    /\ threads' = [threads EXCEPT ![t].seen = tail, ![t].pc = "next"]
    /\ UNCHANGED <<head, tail, live, nops, refusals, last>>

\* SetNext with the statement of line 30 left out
SetNextSkipped(t) ==
    /\ status = "running"
    /\ threads[t].pc = "next"
    /\ threads' = [threads EXCEPT ![t].pc = "tail"]
    /\ UNCHANGED <<mem, head, tail, brk, live, status, nops, refusals, last>>

\* line 30: tail->next = (blk).  tail is read without synchronisation: the
\* statement reads it again, or uses the value the statement before read.
SetNext(t) ==
    /\ status = "running"
    /\ threads[t].pc = "next"
    /\ \E via \in {tail, threads[t].seen} :
       \E c0 \in {Ctx} : \E c1 \in {set_next(c0, via, threads[t].block)} : Access(c1)
    /\ threads' = [threads EXCEPT ![t].pc = "tail"]
    /\ UNCHANGED <<head, tail, live, nops, refusals, last>>

\* line 31: tail = (blk); lines 128 and 159: return block + 1
SetTail(t) ==
    /\ status = "running"
    /\ threads[t].pc = "tail"
    /\ tail' = threads[t].block
    /\ live' = live \cup {[ptr |-> Mod(threads[t].block + HEADER_SIZE),
                           req |-> threads[t].req, id |-> threads[t].id]}
    /\ threads' = [threads EXCEPT ![t].pc = "done"]
    /\ UNCHANGED <<mem, head, brk, status, nops, refusals, last>>

NextRace ==
    \/ \E req \in Sizes : Setup(req)
    \/ \E t \in Threads : \E req \in Sizes : Call(t, req)
    \/ \E t \in Threads : Search(t)
    \/ \E t \in Threads : Sbrk(t)
    \/ \E t \in Threads : SetPrev(t)
    \/ \E t \in Threads : SetNext(t)
    \/ \E t \in Threads : SetTail(t)

SpecRace == Init /\ [][NextRace]_vars

\* the threads that returned a block to their caller
Returners == {t \in Threads : threads[t].pc = "done" /\ threads[t].block # NULL}
Lost(t) == threads[t].block \notin Blocks

\* C20: two threads in xmalloc at the same time race on the chain: a block
\* returned to a caller can be unreachable from head, and it is so only when
\* the two threads ran the growth path interleaved, both linking their block
\* behind the same tail; calls that run one after the other lose no block.
C20_LossOnlyByRace ==
    (\A t \in Threads : threads[t].pc = "done") =>
        \A t \in Returners : Lost(t) =>
            \E u \in Returners \ {t} : threads[u].seen = threads[t].seen

\* C20 witness: both threads returned a block, and one of the blocks is not
\* reachable from head: the chain does not cover the memory sbrk granted
C20_Witness ==
    /\ status = "running"
    /\ Returners = Threads
    /\ \E t \in Threads : Lost(t)
    /\ \E t \in Threads : ~Lost(t)

====
